---- MODULE Spec2Model ----
(***************************************************************************)
(* Text vectorisation workbook (session 13): the CountVectorizer and       *)
(* TfidfVectorizer cells, modelled as a state machine over a bounded set   *)
(* of small corpora.  Documents are sequences of characters; the library   *)
(* calls made by the cells are modelled by what they compute.              *)
(***************************************************************************)
EXTENDS Integers, Sequences, FiniteSets, TLC

VARIABLES corpus, vectorizer, vector, matrix, error,
          tf_idf_df, tokens_column, skipgram, training, answer

vars == <<corpus, vectorizer, vector, matrix, error,
          tf_idf_df, tokens_column, skipgram, training, answer>>

\* what the cells up to the first TF-IDF matrix do not touch
later_vars == <<tf_idf_df, tokens_column, skipgram, training, answer>>

----------------------------------------------------------------------------
(* Bounds *)

MaxDocs == 2          \* documents per corpus
MaxN == 2             \* largest n of an n-gram range
MaxK == 2             \* largest max_features value

----------------------------------------------------------------------------
(* Characters and strings.  A string is a sequence of one-character        *)
(* strings; Code gives the code point that Python's str comparison uses.   *)

Lowercase == {"a", "b", "c", "d", "e", "g", "h", "i", "k", "l", "n", "o",
              "r", "t", "u", "w", "x"}
Uppercase == {"B", "E", "K", "T", "U"}
Punctuation == {" ", "!", "*", ",", "-", "|"}

Code(c) ==
    CASE c = " " -> 32 [] c = "!" -> 33 [] c = "*" -> 42 [] c = "," -> 44
      [] c = "-" -> 45 [] c = "|" -> 124 [] c = "g" -> 103 [] c = "w" -> 119
      [] c = "B" -> 66 [] c = "E" -> 69 [] c = "K" -> 75 [] c = "T" -> 84
      [] c = "U" -> 85 [] c = "_" -> 95
      [] c = "a" -> 97 [] c = "b" -> 98 [] c = "c" -> 99 [] c = "d" -> 100
      [] c = "e" -> 101 [] c = "h" -> 104 [] c = "i" -> 105 [] c = "k" -> 107
      [] c = "l" -> 108 [] c = "n" -> 110 [] c = "o" -> 111 [] c = "r" -> 114
      [] c = "t" -> 116 [] c = "u" -> 117 [] c = "x" -> 120

\* str.lower() on one character
lower(c) ==
    CASE c = "B" -> "b" [] c = "E" -> "e" [] c = "K" -> "k" [] c = "T" -> "t"
      [] c = "U" -> "u" [] OTHER -> c

\* the class \w of the default token_pattern: letters, digits and underscore
IsWordChar(c) == c \in Lowercase \cup Uppercase \cup {"_"}

\* Python's < on str: code point by code point, a proper prefix is smaller
RECURSIVE StrLess(_, _)
StrLess(s, t) ==
    IF t = <<>> THEN FALSE
    ELSE IF s = <<>> THEN TRUE
    ELSE IF Code(Head(s)) # Code(Head(t)) THEN Code(Head(s)) < Code(Head(t))
    ELSE StrLess(Tail(s), Tail(t))

----------------------------------------------------------------------------
(* The documents the corpora are drawn from *)

\* "brexit trade deal"
DocTradeDeal == <<"b","r","e","x","i","t"," ","t","r","a","d","e"," ",
                  "d","e","a","l">>
\* "brexit election"
DocElection == <<"b","r","e","x","i","t"," ","e","l","e","c","t","i","o","n">>
\* "The EU-UK deal, a deal!"
DocHeadline == <<"T","h","e"," ","E","U","-","U","K"," ","d","e","a","l",",",
                 " ","a"," ","d","e","a","l","!">>
\* "no_deal Brexit"
DocPhrased == <<"n","o","_","d","e","a","l"," ","B","r","e","x","i","t">>
\* "the a"
DocStopOnly == <<"t","h","e"," ","a">>
\* ""
DocEmpty == <<>>

Documents == {DocTradeDeal, DocElection, DocHeadline, DocPhrased,
              DocStopOnly, DocEmpty}

corpus_toy == <<DocTradeDeal, DocElection>>

Corpora == UNION {[1..n -> Documents] : n \in 1..MaxDocs}

\* The 'tokens' column of the news data: the tokens of a document joined by
\* the separator |*|
\* "brexit|*|trade|*|deal"
TokensTradeDeal == <<"b","r","e","x","i","t","|","*","|","t","r","a","d",
                     "e","|","*","|","d","e","a","l">>
\* "deal|*|brexit|*|deal"
TokensDealDeal == <<"d","e","a","l","|","*","|","b","r","e","x","i","t","|",
                    "*","|","d","e","a","l">>
\* "the|*|deal"
TokensTheDeal == <<"t","h","e","|","*","|","d","e","a","l">>
\* "UK|*|agree|*|Brexit|*|trade|*|deal|*|with|*|EU"
TokensSkipGram == <<"U","K","|","*","|","a","g","r","e","e","|","*","|","B",
                    "r","e","x","i","t","|","*","|","t","r","a","d","e","|",
                    "*","|","d","e","a","l","|","*","|","w","i","t","h","|",
                    "*","|","E","U">>
\* ""
TokensNone == <<>>

\* a column of the DataFrame: its cells are all str (as read from the csv)
\* or all list (after the split)
Column(dtype, cells) == [dtype |-> dtype, cells |-> cells]

\* the words of the built-in 'english' stop list that the documents can form
ENGLISH_STOP_WORDS == {<<"t","h","e">>, <<"n","o">>, <<"a">>}

----------------------------------------------------------------------------
(* Analyser: preprocess (lower-case), tokenise, drop stop words, n-grams   *)

preprocess(doc) == [i \in 1..Len(doc) |-> lower(doc[i])]

\* token_pattern r"(?u)\b\w+\b": one-character runs are kept as well
RECURSIVE FindAllAnyLength(_, _, _, _)
FindAllAnyLength(doc, i, run, acc) ==
    IF i > Len(doc)
    THEN IF Len(run) >= 1 THEN Append(acc, run) ELSE acc
    ELSE IF IsWordChar(doc[i])
         THEN FindAllAnyLength(doc, i + 1, Append(run, doc[i]), acc)
         ELSE FindAllAnyLength(doc, i + 1, <<>>,
                               IF Len(run) >= 1 THEN Append(acc, run)
                               ELSE acc)

\* token_pattern r"(?u)\b\w\w+\b": the maximal runs of word characters of
\* length two or more, in order of appearance
RECURSIVE FindAll(_, _, _, _)
FindAll(doc, i, run, acc) ==
    IF i > Len(doc)
    THEN IF Len(run) >= 2 THEN Append(acc, run) ELSE acc
    ELSE IF IsWordChar(doc[i])
         THEN FindAll(doc, i + 1, Append(run, doc[i]), acc)
         ELSE FindAll(doc, i + 1, <<>>,
                      IF Len(run) >= 2 THEN Append(acc, run) ELSE acc)

tokenize(doc) == FindAll(doc, 1, <<>>, <<>>)

\* " ".join(tokens[i : i + n])
RECURSIVE SpaceJoin(_, _, _)
SpaceJoin(tokens, i, n) ==
    IF n = 0 THEN <<>>
    ELSE IF n = 1 THEN tokens[i]
    ELSE tokens[i] \o <<" ">> \o SpaceJoin(tokens, i + 1, n - 1)

\* the n-grams of one length, left to right
NGramsOfLength(tokens, n) ==
    [i \in 1..(Len(tokens) - n + 1) |-> SpaceJoin(tokens, i, n)]

RECURSIVE NGramsFrom(_, _, _)
NGramsFrom(tokens, n, max_n) ==
    IF n > max_n \/ n > Len(tokens) THEN <<>>
    ELSE NGramsOfLength(tokens, n) \o NGramsFrom(tokens, n + 1, max_n)

\* _word_ngrams: stop words are dropped first, then n-grams are formed over
\* what is left.  With max_n = 1 the tokens are returned as they are; else
\* the unigrams are taken over when min_n = 1 and the loop runs over
\* range(min_n, min(max_n + 1, n_original_tokens + 1)).
word_ngrams(tokens, ngram_range, stop_words) ==
    LET kept == SelectSeq(tokens, LAMBDA w : w \notin stop_words)
        min_n == ngram_range[1]
        max_n == ngram_range[2]
    IN  IF max_n = 1 THEN kept
        ELSE IF min_n = 1 THEN kept \o NGramsFrom(kept, 2, max_n)
        ELSE NGramsFrom(kept, min_n, max_n)

analyze(doc, v) ==
    word_ngrams(tokenize(preprocess(doc)), v.ngram_range, v.stop_words)

----------------------------------------------------------------------------
(* Vocabulary and count matrix.  A vocabulary is a function from terms to  *)
(* column indices; a matrix is a sequence of rows, one per document, each  *)
(* row a function from 0..(columns - 1).                                   *)

EmptyVocabulary == [t \in {} |-> 0]

Columns(vocabulary) == 0..(Cardinality(DOMAIN vocabulary) - 1)

\* vocabulary[feature] on a defaultdict whose default_factory is len
RECURSIVE AddFeatures(_, _, _)
AddFeatures(vocabulary, features, i) ==
    IF i > Len(features) THEN vocabulary
    ELSE IF features[i] \in DOMAIN vocabulary
         THEN AddFeatures(vocabulary, features, i + 1)
         ELSE AddFeatures(vocabulary @@
                            (features[i] :> Cardinality(DOMAIN vocabulary)),
                          features, i + 1)

RECURSIVE LearnVocabulary(_, _, _, _)
LearnVocabulary(vocabulary, docs, d, v) ==
    IF d > Len(docs) THEN vocabulary
    ELSE LearnVocabulary(AddFeatures(vocabulary, analyze(docs[d], v), 1),
                         docs, d + 1, v)

\* feature_counter[feature_idx] = 1: presence instead of a count
RECURSIVE CountFeaturesBinary(_, _, _, _)
CountFeaturesBinary(counter, vocabulary, features, i) ==
    IF i > Len(features) THEN counter
    ELSE IF features[i] \in DOMAIN vocabulary
         THEN LET j == vocabulary[features[i]]
              IN  CountFeaturesBinary([counter EXCEPT ![j] = 1],
                                      vocabulary, features, i + 1)
         ELSE CountFeaturesBinary(counter, vocabulary, features, i + 1)

\* feature_counter[feature_idx] += 1, a feature outside a fixed vocabulary
\* is skipped
RECURSIVE CountFeatures(_, _, _, _)
CountFeatures(counter, vocabulary, features, i) ==
    IF i > Len(features) THEN counter
    ELSE IF features[i] \in DOMAIN vocabulary
         THEN LET j == vocabulary[features[i]]
              IN  CountFeatures([counter EXCEPT ![j] = @ + 1],
                                vocabulary, features, i + 1)
         ELSE CountFeatures(counter, vocabulary, features, i + 1)

\* _count_vocab: the vocabulary (learnt unless fixed) and the count matrix
count_vocab(docs, v, fixed_vocab) ==
    LET vocabulary == IF fixed_vocab THEN v.vocabulary_
                      ELSE LearnVocabulary(EmptyVocabulary, docs, 1, v)
        X == [d \in 1..Len(docs) |->
                CountFeatures([j \in Columns(vocabulary) |-> 0],
                              vocabulary, analyze(docs[d], v), 1)]
    IN  [vocabulary |-> vocabulary, X |-> X]

\* sorted(): insertion of one term into a sorted sequence of terms
RECURSIVE Insert(_, _)
Insert(sorted, t) ==
    IF sorted = <<>> THEN <<t>>
    ELSE IF StrLess(t, Head(sorted)) THEN <<t>> \o sorted
    ELSE <<Head(sorted)>> \o Insert(Tail(sorted), t)

RECURSIVE SortTerms(_)
SortTerms(terms) ==
    IF terms = {} THEN <<>>
    ELSE LET t == CHOOSE x \in terms : TRUE
         IN  Insert(SortTerms(terms \ {t}), t)

\* the vocabulary left in order of first appearance
sort_features_skipped(X, vocabulary) == [vocabulary |-> vocabulary, X |-> X]

\* _sort_features: the vocabulary re-indexed in sorted order of the terms,
\* and the columns of X moved along
sort_features(X, vocabulary) ==
    LET sorted_features == SortTerms(DOMAIN vocabulary)
        sorted_vocabulary ==
            [t \in DOMAIN vocabulary |->
                (CHOOSE i \in 1..Len(sorted_features) :
                     sorted_features[i] = t) - 1]
        old_index(new) == vocabulary[sorted_features[new + 1]]
    IN  [vocabulary |-> sorted_vocabulary,
         X |-> [d \in 1..Len(X) |->
                  [j \in Columns(vocabulary) |-> X[d][old_index(j)]]]]

----------------------------------------------------------------------------
(* Document-frequency thresholds.  An int threshold is a document count, a *)
(* float threshold a fraction of the documents.  The floats are halves, so *)
(* that threshold * n_doc is exact in binary floating point.               *)

IntDf(k) == [integral |-> TRUE, num |-> k, den |-> 1]
FloatDf(p, q) == [integral |-> FALSE, num |-> p, den |-> q]

\* max_df if isinstance(max_df, numbers.Integral) else max_df * n_doc,
\* as a fraction num / den
doc_count(df, n_doc) ==
    IF df.integral THEN [num |-> df.num, den |-> 1]
    ELSE [num |-> df.num * n_doc, den |-> df.den]

FracLess(a, b) == a.num * b.den < b.num * a.den
FracLeq(a, b) == a.num * b.den <= b.num * a.den
Whole(n) == [num |-> n, den |-> 1]

\* _document_frequency: per column, the documents with a non-zero entry
document_frequency(X, j) == Cardinality({d \in 1..Len(X) : X[d][j] # 0})

\* X.sum(axis=0): per column, the occurrences in the whole corpus
RECURSIVE ColumnSum(_, _, _)
ColumnSum(X, j, d) ==
    IF d > Len(X) THEN 0 ELSE X[d][j] + ColumnSum(X, j, d + 1)

\* the lower bound taken as exclusive: dfs > low
df_mask_exclusive(X, columns, high, low) ==
    {j \in columns : /\ FracLeq(Whole(document_frequency(X, j)), high)
                     /\ FracLess(low, Whole(document_frequency(X, j)))}

\* the columns inside the document-frequency band
df_mask(X, columns, high, low) ==
    {j \in columns : /\ FracLeq(Whole(document_frequency(X, j)), high)
                     /\ FracLeq(low, Whole(document_frequency(X, j)))}

\* (-tfs[mask]).argsort()[:limit]: the sort is not stable, so among columns
\* of equal total count any may come first; these are the sets of columns
\* the slice can select
TopByFrequency(X, mask, limit) ==
    {kept \in SUBSET mask :
        /\ Cardinality(kept) = limit
        /\ \A i \in kept : \A j \in mask \ kept :
               ColumnSum(X, i, 1) >= ColumnSum(X, j, 1)}

\* max_features applied to all columns, the band afterwards
limit_masks_unfiltered(X, columns, high, low, limit) ==
    LET mask == df_mask(X, columns, high, low)
    IN  IF limit # 0 /\ Cardinality(columns) > limit
        THEN {kept \cap mask : kept \in TopByFrequency(X, columns, limit)}
        ELSE {mask}

\* the masks _limit_features can end with; limit = 0 stands for None
limit_masks(X, columns, high, low, limit) ==
    LET mask == df_mask(X, columns, high, low)
    IN  IF limit # 0 /\ Cardinality(mask) > limit
        THEN TopByFrequency(X, mask, limit)
        ELSE {mask}

\* _limit_features for one final mask: new_indices = cumsum(mask) - 1, the
\* vocabulary and X cut down to the kept columns
limit_features(X, vocabulary, mask) ==
    LET new_index(j) == Cardinality({i \in mask : i <= j}) - 1
        kept_terms == {t \in DOMAIN vocabulary : vocabulary[t] \in mask}
        kept_index(new) == CHOOSE j \in mask : new_index(j) = new
    IN  [vocabulary |-> [t \in kept_terms |-> new_index(vocabulary[t])],
         removed_terms |-> (DOMAIN vocabulary) \ kept_terms,
         X |-> [d \in 1..Len(X) |->
                  [j \in 0..(Cardinality(mask) - 1) |-> X[d][kept_index(j)]]]]

----------------------------------------------------------------------------
(* TF-IDF weights.  ln is irrational, so a weight is kept in closed form:  *)
(* [tf, num, den] stands for the real number tf * (ln(num / den) + 1) with *)
(* num / den in lowest terms.  ln(1) = 0, so num = den means exactly tf.   *)

RECURSIVE GCD(_, _)
GCD(a, b) == IF b = 0 THEN a ELSE GCD(b, a % b)

\* idf = np.log(n_samples / df) + 1, without the added one
IdfUnsmoothed(df, n_samples) ==
    LET g == GCD(n_samples, df)
    IN  [num |-> n_samples \div g, den |-> df \div g]

\* idf = np.log((n_samples + 1) / df) + 1, the one added to n_samples only
IdfHalfSmoothed(df, n_samples) ==
    LET g == GCD(n_samples + 1, df)
    IN  [num |-> (n_samples + 1) \div g, den |-> df \div g]

\* idf = np.log(df / n_samples) + 1, the fraction upside down
IdfInverted(df, n_samples) ==
    LET g == GCD(n_samples + 1, df + 1)
    IN  [num |-> (df + 1) \div g, den |-> (n_samples + 1) \div g]

\* TfidfTransformer.fit with smooth_idf: df += 1, n_samples += 1,
\* idf = np.log(n_samples / df) + 1
Idf(df, n_samples) ==
    LET g == GCD(n_samples + 1, df + 1)
    IN  [num |-> (n_samples + 1) \div g, den |-> (df + 1) \div g]

Zero == [tf |-> 0, num |-> 1, den |-> 1]

\* X * idf_diag on a sparse X: an absent (zero) count stays absent
Times(count, idf) ==
    IF count = 0 THEN Zero
    ELSE [tf |-> count, num |-> idf.num, den |-> idf.den]

\* A matrix entry: the weight w, untouched (norm "none") or divided by the
\* l1 or l2 norm of the row of raw weights `of`
Raw(w) == [w |-> w, norm |-> "none", of |-> <<>>]

IsZeroRow(row) == \A j \in DOMAIN row : row[j].tf = 0

\* every entry divided by the row norm, the zero norm included
normalize_row_unguarded(row, norm) ==
    [j \in DOMAIN row |-> [w |-> row[j], norm |-> norm, of |-> row]]

\* sklearn.preprocessing.normalize on CSR rows: a row whose norm is 0 is
\* skipped, only the stored (non-zero) entries of a row are divided
normalize_row(row, norm) ==
    IF IsZeroRow(row) THEN [j \in DOMAIN row |-> Raw(row[j])]
    ELSE [j \in DOMAIN row |->
            IF row[j].tf = 0 THEN Raw(Zero)
            ELSE [w |-> row[j], norm |-> norm, of |-> row]]

\* TfidfTransformer.transform: X * idf_diag, then normalize unless norm is
\* None
tfidf_transform(X, idf, norm) ==
    [d \in 1..Len(X) |->
        LET row == [j \in DOMAIN X[d] |-> Times(X[d][j], idf[j])]
        IN  IF norm = "none" THEN [j \in DOMAIN row |-> Raw(row[j])]
            ELSE normalize_row(row, norm)]

----------------------------------------------------------------------------
(* The vectorizer objects and the parameters the cells pass                *)

NoMatrix == <<>>
\* tf_idf_df, skipgram before the cells that bind them; no training under
\* way; nothing asked of the embedding yet
NoFrame == [bound |-> FALSE, columns |-> <<>>, data |-> <<>>,
            category |-> <<>>]
NoModel == [bound |-> FALSE]
NotTraining == [active |-> FALSE]
NoAnswer == [op |-> "none"]

NgramRanges == {r \in (1..MaxN) \X (1..MaxN) : r[1] <= r[2]}
\* every pair of boundaries a caller can pass, well-formed or not
AnyNgramRanges == (0..MaxN) \X (0..MaxN)
Norms == {"none", "l1", "l2"}
StopWordSettings == {{}, ENGLISH_STOP_WORDS}
MinDfs == {IntDf(1), IntDf(2), FloatDf(1, 2), FloatDf(1, 1)}
MaxDfs == {FloatDf(1, 1), IntDf(1), FloatDf(1, 2)}
MaxFeatures == 0..MaxK          \* 0 stands for None

Unbound == [kind |-> "none", ngram_range |-> <<1, 1>>, stop_words |-> {},
            min_df |-> IntDf(1), max_df |-> FloatDf(1, 1),
            max_features |-> 0, norm |-> "none", fitted |-> FALSE,
            vocabulary_ |-> EmptyVocabulary, idf_ |-> <<>>,
            stop_words_ |-> {}]

\* CountVectorizer(ngram_range=...): everything else at its default
CountVectorizer(ngram_range) ==
    [Unbound EXCEPT !.kind = "count", !.ngram_range = ngram_range]

\* TfidfVectorizer(norm=..., stop_words=..., min_df=..., max_df=...,
\* max_features=...)
TfidfVectorizer(norm, stop_words, min_df, max_df, max_features) ==
    [Unbound EXCEPT !.kind = "tfidf", !.norm = norm,
                    !.stop_words = stop_words, !.min_df = min_df,
                    !.max_df = max_df, !.max_features = max_features]

Failure(e) == [error |-> e, vocabulary |-> EmptyVocabulary, X |-> NoMatrix,
               removed_terms |-> {}]
Success(r) == [error |-> "none", vocabulary |-> r.vocabulary, X |-> r.X,
               removed_terms |-> r.removed_terms]

\* _validate_params: the lower boundary of ngram_range may not be larger
\* than the upper one; nothing else is looked at
validate_params(v) == v.ngram_range[1] <= v.ngram_range[2]

\* fit_transform without _validate_params
count_fit_transform_unvalidated(docs, v) ==
    LET cv == count_vocab(docs, v, FALSE)
    IN  IF DOMAIN cv.vocabulary = {} THEN {Failure("EmptyVocabulary")}
        ELSE
          LET s == sort_features(cv.X, cv.vocabulary)
              n_doc == Len(docs)
              max_doc_count == doc_count(v.max_df, n_doc)
              min_doc_count == doc_count(v.min_df, n_doc)
          IN  IF FracLess(max_doc_count, min_doc_count)
              THEN {Failure("InvalidConfiguration")}
              ELSE {IF mask = {} THEN Failure("EmptyVocabulary")
                    ELSE Success(limit_features(s.X, s.vocabulary, mask)) :
                      mask \in limit_masks(s.X, Columns(s.vocabulary),
                                           max_doc_count, min_doc_count,
                                           v.max_features)}

\* fit_transform that never raises for want of terms
count_fit_transform_unchecked(docs, v) ==
    LET cv == count_vocab(docs, v, FALSE)
        s == sort_features(cv.X, cv.vocabulary)
        n_doc == Len(docs)
        max_doc_count == doc_count(v.max_df, n_doc)
        min_doc_count == doc_count(v.min_df, n_doc)
    IN  IF FracLess(max_doc_count, min_doc_count)
        THEN {Failure("InvalidConfiguration")}
        ELSE {Success(limit_features(s.X, s.vocabulary, mask)) :
                mask \in limit_masks(s.X, Columns(s.vocabulary),
                                     max_doc_count, min_doc_count,
                                     v.max_features)}

\* CountVectorizer.fit_transform: every way the call can end.  The two
\* ValueErrors "empty vocabulary" and "After pruning, no terms remain" are
\* EmptyVocabulary, "max_df corresponds to < documents than min_df" and
\* "Invalid value for ngram_range" are InvalidConfiguration.
count_fit_transform(docs, v) ==
    LET cv == count_vocab(docs, v, FALSE)
    IN  IF ~validate_params(v) THEN {Failure("InvalidConfiguration")}
        ELSE IF DOMAIN cv.vocabulary = {} THEN {Failure("EmptyVocabulary")}
        ELSE
          LET s == sort_features(cv.X, cv.vocabulary)
              n_doc == Len(docs)
              max_doc_count == doc_count(v.max_df, n_doc)
              min_doc_count == doc_count(v.min_df, n_doc)
          IN  IF FracLess(max_doc_count, min_doc_count)
              THEN {Failure("InvalidConfiguration")}
              ELSE {IF mask = {} THEN Failure("EmptyVocabulary")
                    ELSE Success(limit_features(s.X, s.vocabulary, mask)) :
                      mask \in limit_masks(s.X, Columns(s.vocabulary),
                                           max_doc_count, min_doc_count,
                                           v.max_features)}

\* TfidfTransformer.fit: one idf per column, from the document frequencies
\* of the filtered count matrix and the number of documents
idf_fit(X) ==
    [j \in DOMAIN X[1] |-> Idf(document_frequency(X, j), Len(X))]

----------------------------------------------------------------------------
(* The cells *)

Init ==
    /\ corpus \in Corpora
    /\ vectorizer = Unbound
    /\ vector = NoMatrix
    /\ matrix = NoMatrix
    /\ error = "none"
    /\ tf_idf_df = NoFrame
    /\ tokens_column = Column("str", <<TokensTradeDeal, TokensDealDeal>>)
    /\ skipgram = NoModel
    /\ training = NotTraining
    /\ answer = NoAnswer

\* vectorizer = CountVectorizer() / CountVectorizer(ngram_range=(2,2))
NewCountVectorizer ==
    /\ vectorizer.kind = "none"
    /\ \E ngram_range \in NgramRanges :
          vectorizer' = CountVectorizer(ngram_range)
    /\ UNCHANGED <<corpus, vector, matrix, error>>
    /\ UNCHANGED later_vars

\* vectorizer = CountVectorizer(ngram_range=...) with boundaries of any kind
NewCountVectorizerAnyRange ==
    /\ vectorizer.kind = "none"
    /\ \E ngram_range \in AnyNgramRanges :
          vectorizer' = CountVectorizer(ngram_range)
    /\ UNCHANGED <<corpus, vector, matrix, error>>
    /\ UNCHANGED later_vars

\* vectorizer = TfidfVectorizer(...)
NewTfidfVectorizer ==
    /\ vectorizer.kind = "none"
    /\ \E norm \in Norms, stop_words \in StopWordSettings,
          min_df \in MinDfs, max_df \in MaxDfs, max_features \in MaxFeatures :
          vectorizer' = TfidfVectorizer(norm, stop_words, min_df, max_df,
                                        max_features)
    /\ UNCHANGED <<corpus, vector, matrix, error>>
    /\ UNCHANGED later_vars

\* vectorizer.fit(corpus): fit_transform with the matrix thrown away
fit ==
    /\ vectorizer.kind = "count"
    /\ ~vectorizer.fitted
    /\ error = "none"
    /\ \E r \in count_fit_transform(corpus, vectorizer) :
          IF r.error = "none"
          THEN /\ vectorizer' = [vectorizer EXCEPT
                                    !.fitted = TRUE,
                                    !.vocabulary_ = r.vocabulary,
                                    !.stop_words_ = r.removed_terms]
               /\ error' = error
          ELSE /\ error' = r.error
               /\ vectorizer' = vectorizer
    /\ UNCHANGED <<corpus, vector, matrix>>
    /\ UNCHANGED later_vars

\* vector = vectorizer.transform(corpus): counts against the fitted
\* vocabulary
transform ==
    /\ vectorizer.kind = "count"
    /\ vectorizer.fitted
    /\ vector = NoMatrix
    /\ vector' = count_vocab(corpus, vectorizer, TRUE).X
    /\ UNCHANGED <<corpus, vectorizer, matrix, error>>
    /\ UNCHANGED later_vars

\* matrix = vectorizer.fit_transform(corpus) on a TfidfVectorizer: the
\* CountVectorizer fit_transform, then TfidfTransformer fit and transform
fit_transform ==
    /\ vectorizer.kind = "tfidf"
    /\ ~vectorizer.fitted
    /\ error = "none"
    /\ \E r \in count_fit_transform(corpus, vectorizer) :
          IF r.error = "none"
          THEN LET idf == idf_fit(r.X)
               IN  /\ vectorizer' = [vectorizer EXCEPT
                                        !.fitted = TRUE,
                                        !.vocabulary_ = r.vocabulary,
                                        !.stop_words_ = r.removed_terms,
                                        !.idf_ = idf]
                   /\ matrix' = tfidf_transform(r.X, idf, vectorizer.norm)
                   /\ error' = error
          ELSE /\ error' = r.error
               /\ UNCHANGED <<vectorizer, matrix>>
    /\ UNCHANGED <<corpus, vector>>
    /\ UNCHANGED later_vars

Next ==
    \/ NewCountVectorizer
    \/ NewTfidfVectorizer
    \/ fit
    \/ transform
    \/ fit_transform

Spec == Init /\ [][Next]_vars

\* the same cells, the n-gram range of the CountVectorizer not restricted
\* to the well-formed ones
NextAnyConfiguration ==
    \/ NewCountVectorizerAnyRange
    \/ NewTfidfVectorizer
    \/ fit
    \/ transform
    \/ fit_transform

SpecAnyConfiguration == Init /\ [][NextAnyConfiguration]_vars

----------------------------------------------------------------------------
(* Word embeddings: the split of the tokens column and the skip-gram model *)

MaxWindow == 2        \* largest window of a Word2Vec model
MaxMinCount == 2      \* largest min_count of a Word2Vec model
MaxSize == 2          \* largest vector size of a Word2Vec model
MaxEpochs == 2        \* passes over the corpus (gensim's iter, 5 by default)
MaxTopN == 2          \* largest topn of a most_similar query

\* token_string.split('|*|'): the pieces between the separators, an empty
\* string giving one empty piece
RECURSIVE split_from(_, _, _, _)
split_from(token_string, i, piece, acc) ==
    IF i > Len(token_string) THEN Append(acc, piece)
    ELSE IF /\ i + 2 <= Len(token_string)
            /\ token_string[i] = "|"
            /\ token_string[i + 1] = "*"
            /\ token_string[i + 2] = "|"
         THEN split_from(token_string, i + 3, <<>>, Append(acc, piece))
         ELSE split_from(token_string, i + 1,
                         Append(piece, token_string[i]), acc)

split(token_string) == split_from(token_string, 1, <<>>, <<>>)

\* scan_vocab: how often a word occurs in the sentences
RECURSIVE raw_count(_, _, _)
raw_count(sentences, word, d) ==
    IF d > Len(sentences) THEN 0
    ELSE Cardinality({i \in 1..Len(sentences[d]) : sentences[d][i] = word})
         + raw_count(sentences, word, d + 1)

\* the words of the sentences in the order scan_vocab meets them first
RECURSIVE raw_vocab(_, _, _, _)
raw_vocab(sentences, d, i, acc) ==
    IF d > Len(sentences) THEN acc
    ELSE IF i > Len(sentences[d]) THEN raw_vocab(sentences, d + 1, 1, acc)
    ELSE raw_vocab(sentences, d, i + 1,
                   IF \E k \in 1..Len(acc) : acc[k] = sentences[d][i]
                   THEN acc ELSE Append(acc, sentences[d][i]))

\* prepare_vocab keeping only the words that occur more often than min_count
prepare_vocab_above(sentences, min_count) ==
    SelectSeq(raw_vocab(sentences, 1, 1, <<>>),
              LAMBDA word : raw_count(sentences, word, 1) > min_count)

\* prepare_vocab: the words that occur at least min_count times are kept,
\* the others dropped
prepare_vocab(sentences, min_count) ==
    SelectSeq(raw_vocab(sentences, 1, 1, <<>>),
              LAMBDA word : raw_count(sentences, word, 1) >= min_count)

\* sort_vocab: index2word by descending count, a stable sort
RECURSIVE sort_vocab(_, _)
sort_vocab(sentences, words) ==
    IF words = <<>> THEN <<>>
    ELSE LET count(k) == raw_count(sentences, words[k], 1)
             first == CHOOSE k \in 1..Len(words) :
                         \A m \in 1..Len(words) :
                            \/ count(m) < count(k)
                            \/ count(m) = count(k) /\ k <= m
             rest == [m \in 1..(Len(words) - 1) |->
                        IF m < first THEN words[m] ELSE words[m + 1]]
         IN  <<words[first]>> \o sort_vocab(sentences, rest)

Range(seq) == {seq[i] : i \in 1..Len(seq)}

\* the positions of a set in ascending order
RECURSIVE Ascending(_)
Ascending(positions) ==
    IF positions = {} THEN <<>>
    ELSE LET least == CHOOSE p \in positions : \A q \in positions : p <= q
         IN  <<least>> \o Ascending(positions \ {least})

\* word_vocabs of train_batch_sg: the positions of a sentence whose word is
\* in the vocabulary and survives the frequent-word down-sampling, which is a
\* random draw per occurrence
word_vocabs(sentence, index2word) ==
    {Ascending(kept) :
        kept \in SUBSET {i \in 1..Len(sentence) :
                            sentence[i] \in Range(index2word)}}

\* the window of train_batch_sg with the target itself left in
context_with_target(kept, pos, window, reduced_window) ==
    LET start == IF pos - window + reduced_window < 1 THEN 1
                 ELSE pos - window + reduced_window
        stop == IF pos + window - reduced_window > Len(kept) THEN Len(kept)
                ELSE pos + window - reduced_window
    IN  {kept[pos2] : pos2 \in start..stop}

\* the inner loop of train_batch_sg: the words of word_vocabs at most
\* window - reduced_window places from the target, the target excepted
context(kept, pos, window, reduced_window) ==
    LET start == IF pos - window + reduced_window < 1 THEN 1
                 ELSE pos - window + reduced_window
        stop == IF pos + window - reduced_window > Len(kept) THEN Len(kept)
                ELSE pos + window - reduced_window
    IN  {kept[pos2] : pos2 \in (start..stop) \ {pos}}

\* the vectors a trained word can end up with: the outcome of training
\* depends on the random initialisation and on the draws above
Vectors(size) ==
    IF size = 1 THEN {<<1>>, <<-1>>}
    ELSE {[i \in 1..size |-> IF i = 1 THEN 1 ELSE 0],
          [i \in 1..size |-> IF i = 1 THEN -1 ELSE 0],
          [i \in 1..size |-> IF i <= 2 THEN 1 ELSE 0]}

RECURSIVE dot(_, _)
dot(a, b) == IF a = <<>> THEN 0 ELSE a[1] * b[1] + dot(Tail(a), Tail(b))

\* the cosine of two vectors, dot / sqrt(a2 * b2), kept as its three parts
cosine(a, b) == [dot |-> dot(a, b), a2 |-> dot(a, a), b2 |-> dot(b, b)]

\* cosine x is smaller than cosine y
CosLess(x, y) ==
    LET xs == x.dot * x.dot * y.a2 * y.b2
        ys == y.dot * y.dot * x.a2 * x.b2
    IN  IF x.dot >= 0 /\ y.dot >= 0 THEN xs < ys
        ELSE IF x.dot < 0 /\ y.dot < 0 THEN xs > ys
        ELSE x.dot < 0

\* the words the cells ask the model about: 'brexit', 'deal', 'trade' and a
\* word that is in no document
QueryWords == {<<"b","r","e","x","i","t">>, <<"d","e","a","l">>,
               <<"t","r","a","d","e">>, <<"e","u">>}

Raised(op, args, e) == [op |-> op, args |-> args, raised |-> e]
Returned(op, args, r) == [op |-> op, args |-> args, raised |-> "none",
                          result |-> r]

\* the orders in which the words can be listed by descending similarity:
\* words of equal similarity come in either order
Rankings(words, sim) ==
    {r \in [1..Cardinality(words) -> words] :
        /\ \A i, j \in 1..Cardinality(words) : i # j => r[i] # r[j]
        /\ \A i, j \in 1..Cardinality(words) :
              i < j => ~CosLess(sim[r[i]], sim[r[j]])}

\* most_similar that lists the query word among its results
most_similar_with_query(model, word, topn) ==
    LET sim == [w \in Range(model.index2word) |->
                  cosine(model.vectors[w], model.vectors[word])]
        n == IF topn < Len(model.index2word) THEN topn
             ELSE Len(model.index2word)
    IN  {[i \in 1..n |-> <<r[i], sim[r[i]]>>] :
            r \in Rankings(Range(model.index2word), sim)}

\* wv.most_similar(positive=word, topn=topn): the words other than the query
\* by descending cosine, the first topn of them
most_similar_of(model, word, topn) ==
    LET others == Range(model.index2word) \ {word}
        sim == [w \in others |->
                  cosine(model.vectors[w], model.vectors[word])]
        n == IF topn < Cardinality(others) THEN topn
             ELSE Cardinality(others)
    IN  {[i \in 1..n |-> <<r[i], sim[r[i]]>>] : r \in Rankings(others, sim)}

\* corpus_brexit['tokens'] =
\*     corpus_brexit['tokens'].apply(lambda token_string: token_string.split('|*|'))
\* run on a column of lists it fails: a list has no split
split_tokens ==
    /\ error = "none"
    /\ ~training.active
    /\ IF tokens_column.dtype = "str"
       THEN /\ tokens_column' =
                  Column("list", [d \in 1..Len(tokens_column.cells) |->
                                     split(tokens_column.cells[d])])
            /\ error' = error
       ELSE /\ error' = "AttributeError"
            /\ tokens_column' = tokens_column
    /\ UNCHANGED <<corpus, vectorizer, vector, matrix, tf_idf_df, skipgram,
                   training, answer>>

\* skipgram = Word2Vec(corpus_brexit['tokens'], size=.., window=..,
\* min_count=.., sg=1), run after the split as in the workbook: the
\* vocabulary is built, and with no word in it training refuses to start
Word2Vec ==
    /\ error = "none"
    /\ ~training.active
    /\ ~skipgram.bound
    /\ tokens_column.dtype = "list"
    /\ \E size \in 1..MaxSize, window \in 1..MaxWindow,
          min_count \in 1..MaxMinCount :
          LET sentences == tokens_column.cells
              index2word ==
                  sort_vocab(sentences, prepare_vocab(sentences, min_count))
          IN  IF index2word = <<>>
              THEN /\ error' = "RuntimeError"
                   /\ training' = training
              ELSE /\ training' = [active |-> TRUE, size |-> size,
                                   window |-> window,
                                   min_count |-> min_count,
                                   index2word |-> index2word,
                                   epoch |-> 1, sentence |-> 0,
                                   kept |-> <<>>, pos |-> 0,
                                   contexts |-> {}]
                   /\ error' = error
    /\ UNCHANGED <<corpus, vectorizer, vector, matrix, tf_idf_df,
                   tokens_column, skipgram, answer>>

\* train_batch_sg, the next sentence of the pass, or the first one of the
\* next pass: the words that take part are drawn
train_sentence ==
    /\ training.active
    /\ training.pos = Len(training.kept)
    /\ \/ training.sentence < Len(tokens_column.cells)
       \/ training.epoch < MaxEpochs
    /\ LET last == training.sentence = Len(tokens_column.cells)
           d == IF last THEN 1 ELSE training.sentence + 1
       IN  \E kept \in word_vocabs(tokens_column.cells[d],
                                   training.index2word) :
              training' = [training EXCEPT
                              !.epoch = IF last THEN @ + 1 ELSE @,
                              !.sentence = d,
                              !.kept = kept,
                              !.pos = 0,
                              !.contexts = {}]
    /\ UNCHANGED <<corpus, vectorizer, vector, matrix, error, tf_idf_df,
                   tokens_column, skipgram, answer>>

\* train_batch_sg, the next target word of the sentence: the window is
\* reduced by a random amount and the target is trained on each context word
train_sg_pair ==
    /\ training.active
    /\ training.pos < Len(training.kept)
    /\ \E reduced_window \in 0..(training.window - 1) :
          training' = [training EXCEPT
                          !.pos = @ + 1,
                          !.contexts = context(training.kept,
                                               training.pos + 1,
                                               training.window,
                                               reduced_window)]
    /\ UNCHANGED <<corpus, vectorizer, vector, matrix, error, tf_idf_df,
                   tokens_column, skipgram, answer>>

\* the last pass is over: Word2Vec returns and skipgram is bound to the
\* model, every word of the vocabulary with its vector
Word2VecReturns ==
    /\ training.active
    /\ training.pos = Len(training.kept)
    /\ training.sentence = Len(tokens_column.cells)
    /\ training.epoch = MaxEpochs
    /\ \E vectors \in [Range(training.index2word) ->
                          Vectors(training.size)] :
          skipgram' = [bound |-> TRUE, size |-> training.size,
                       window |-> training.window,
                       min_count |-> training.min_count,
                       index2word |-> training.index2word,
                       vectors |-> vectors]
    /\ training' = NotTraining
    /\ UNCHANGED <<corpus, vectorizer, vector, matrix, error, tf_idf_df,
                   tokens_column, answer>>

\* skipgram['brexit']: the vector of a word of the vocabulary, KeyError
\* (the unknown-token error) for any other word
getitem ==
    /\ skipgram.bound
    /\ \E word \in QueryWords :
          answer' = IF word \in Range(skipgram.index2word)
                    THEN Returned("getitem", <<word>>, skipgram.vectors[word])
                    ELSE Raised("getitem", <<word>>, "UnknownToken")
    /\ UNCHANGED <<corpus, vectorizer, vector, matrix, error, tf_idf_df,
                   tokens_column, skipgram, training>>

\* skipgram.wv.similarity('brexit', 'migration')
similarity ==
    /\ skipgram.bound
    /\ \E w1 \in QueryWords, w2 \in QueryWords :
          answer' = IF {w1, w2} \subseteq Range(skipgram.index2word)
                    THEN Returned("similarity", <<w1, w2>>,
                                  cosine(skipgram.vectors[w1],
                                         skipgram.vectors[w2]))
                    ELSE Raised("similarity", <<w1, w2>>, "UnknownToken")
    /\ UNCHANGED <<corpus, vectorizer, vector, matrix, error, tf_idf_df,
                   tokens_column, skipgram, training>>

\* skipgram.wv.most_similar(positive="brexit", topn=...)
most_similar ==
    /\ skipgram.bound
    /\ \E word \in QueryWords, topn \in 0..MaxTopN :
          IF word \in Range(skipgram.index2word)
          THEN \E result \in most_similar_of(skipgram, word, topn) :
                  answer' = Returned("most_similar", <<word, topn>>, result)
          ELSE answer' = Raised("most_similar", <<word, topn>>,
                                "UnknownToken")
    /\ UNCHANGED <<corpus, vectorizer, vector, matrix, error, tf_idf_df,
                   tokens_column, skipgram, training>>

\* the tokens columns the embedding is trained on
TokenColumns(strings) ==
    {Column("str", cells) :
        cells \in UNION {[1..n -> strings] : n \in 1..MaxDocs}}

InitEmbedding ==
    /\ corpus = corpus_toy
    /\ vectorizer = Unbound
    /\ vector = NoMatrix
    /\ matrix = NoMatrix
    /\ error = "none"
    /\ tf_idf_df = NoFrame
    /\ tokens_column \in TokenColumns({TokensTradeDeal, TokensDealDeal})
    /\ skipgram = NoModel
    /\ training = NotTraining
    /\ answer = NoAnswer

NextEmbedding ==
    \/ split_tokens
    \/ Word2Vec
    \/ train_sentence
    \/ train_sg_pair
    \/ Word2VecReturns
    \/ getitem
    \/ similarity
    \/ most_similar

SpecEmbedding == InitEmbedding /\ [][NextEmbedding]_vars

InitTraining ==
    /\ corpus = corpus_toy
    /\ vectorizer = Unbound
    /\ vector = NoMatrix
    /\ matrix = NoMatrix
    /\ error = "none"
    /\ tf_idf_df = NoFrame
    /\ tokens_column \in TokenColumns({TokensSkipGram, TokensDealDeal})
    /\ skipgram = NoModel
    /\ training = NotTraining
    /\ answer = NoAnswer

\* the passes of the training, word by word
NextTraining ==
    \/ split_tokens
    \/ Word2Vec
    \/ train_sentence
    \/ train_sg_pair

SpecTraining == InitTraining /\ [][NextTraining]_vars

----------------------------------------------------------------------------
(* The DataFrame of the TF-IDF matrix, the clustering and the rebinding of *)
(* vectorizer                                                              *)

MaxClusters == 2      \* largest n_clusters of a KMeans (3 in the workbook)

\* get_feature_names, the terms from the last column to the first
get_feature_names_reversed(v) ==
    LET size == Cardinality(DOMAIN v.vocabulary_)
    IN  [j \in 1..size |->
            CHOOSE t \in DOMAIN v.vocabulary_ : v.vocabulary_[t] = size - j]

\* vectorizer.get_feature_names(): the terms in the order of their columns
get_feature_names(v) ==
    [j \in 1..Cardinality(DOMAIN v.vocabulary_) |->
        CHOOSE t \in DOMAIN v.vocabulary_ : v.vocabulary_[t] = j - 1]

\* pd.DataFrame(matrix.toarray(), columns=names): the labels must be as many
\* as the columns of the data
DataFrame(data, names) ==
    IF Cardinality(DOMAIN data[1]) # Len(names)
    THEN [error |-> "ValueError", frame |-> NoFrame]
    ELSE [error |-> "none",
          frame |-> [bound |-> TRUE, columns |-> names, data |-> data,
                     category |-> <<>>]]

\* vectorizer = TfidfVectorizer(norm=...), as in the cells of the toy corpus
NewTfidfVectorizerNorm ==
    /\ vectorizer.kind = "none"
    /\ \E norm \in Norms :
          vectorizer' = TfidfVectorizer(norm, {}, IntDf(1), FloatDf(1, 1), 0)
    /\ UNCHANGED <<corpus, vector, matrix, error>>
    /\ UNCHANGED later_vars

\* vectorizer = CountVectorizer(): the name is bound to a new object, the
\* matrix computed with the old one stays
RebindCountVectorizer ==
    /\ vectorizer.kind = "tfidf"
    /\ error = "none"
    /\ vectorizer' = CountVectorizer(<<1, 1>>)
    /\ UNCHANGED <<corpus, vector, matrix, error>>
    /\ UNCHANGED later_vars

\* tf_idf_df = pd.DataFrame(matrix.toarray(),
\*                          columns=vectorizer.get_feature_names())
NewDataFrame ==
    /\ error = "none"
    /\ matrix # NoMatrix
    /\ vectorizer.fitted
    /\ ~tf_idf_df.bound
    /\ LET r == DataFrame(matrix, get_feature_names(vectorizer))
       IN  /\ error' = r.error
           /\ tf_idf_df' = r.frame
    /\ UNCHANGED <<corpus, vectorizer, vector, matrix, tokens_column,
                   skipgram, training, answer>>

\* the toy-corpus cells with the rebinding of vectorizer between the TF-IDF
\* matrix and its DataFrame
NextRelabel ==
    \/ NewTfidfVectorizerNorm
    \/ fit_transform
    \/ RebindCountVectorizer
    \/ fit
    \/ transform
    \/ NewDataFrame

SpecRelabel == Init /\ [][NextRelabel]_vars

\* the cell "Compute TF-IDF on your tokenised news corpus":
\* vectorizer = TfidfVectorizer(stop_words='english', min_df=.., max_df=..),
\* matrix = vectorizer.fit_transform(corpus_brexit['tokens']),
\* tf_idf_df = pd.DataFrame(...).  On a column of lists the analyser fails
\* at doc.lower().
fit_transform_tokens ==
    /\ error = "none"
    /\ \E min_df \in MinDfs, max_df \in MaxDfs :
          LET v == TfidfVectorizer("l2", ENGLISH_STOP_WORDS, min_df, max_df, 0)
          IN  IF tokens_column.dtype # "str"
              THEN /\ vectorizer' = v
                   /\ error' = "AttributeError"
                   /\ UNCHANGED <<matrix, tf_idf_df>>
              ELSE \E r \in count_fit_transform(tokens_column.cells, v) :
                      IF r.error = "none"
                      THEN LET idf == idf_fit(r.X)
                               fitted == [v EXCEPT
                                             !.fitted = TRUE,
                                             !.vocabulary_ = r.vocabulary,
                                             !.stop_words_ = r.removed_terms,
                                             !.idf_ = idf]
                               X == tfidf_transform(r.X, idf, v.norm)
                           IN  /\ vectorizer' = fitted
                               /\ matrix' = X
                               /\ tf_idf_df' =
                                     DataFrame(X, get_feature_names(fitted)).frame
                               /\ error' = error
                      ELSE /\ vectorizer' = v
                           /\ error' = r.error
                           /\ UNCHANGED <<matrix, tf_idf_df>>
    /\ UNCHANGED <<corpus, vector, tokens_column, skipgram, training, answer>>

\* km = KMeans(n_clusters=..); km.fit(matrix);
\* tf_idf_df['category'] = km.labels_: one label per document, which one
\* depends on the random centres; fewer documents than clusters is an error
assign_category ==
    /\ error = "none"
    /\ matrix # NoMatrix
    /\ tf_idf_df.bound
    /\ \E n_clusters \in 1..MaxClusters :
          IF Len(matrix) < n_clusters
          THEN /\ error' = "ValueError"
               /\ tf_idf_df' = tf_idf_df
          ELSE /\ \E labels_ \in [1..Len(matrix) -> 0..(n_clusters - 1)] :
                     tf_idf_df' = [tf_idf_df EXCEPT !.category = labels_]
               /\ error' = error
    /\ UNCHANGED <<corpus, vectorizer, vector, matrix, tokens_column,
                   skipgram, training, answer>>

InitPipeline ==
    /\ corpus = corpus_toy
    /\ vectorizer = Unbound
    /\ vector = NoMatrix
    /\ matrix = NoMatrix
    /\ error = "none"
    /\ tf_idf_df = NoFrame
    /\ tokens_column \in TokenColumns({TokensTradeDeal, TokensTheDeal,
                                       TokensNone})
    /\ skipgram = NoModel
    /\ training = NotTraining
    /\ answer = NoAnswer

\* the cells of the Brexit corpus, in any order and any number of times
NextPipeline ==
    \/ fit_transform_tokens
    \/ assign_category
    \/ split_tokens

SpecPipeline == InitPipeline /\ [][NextPipeline]_vars

----------------------------------------------------------------------------
(* What the claims speak of, stated from the documents and not from the    *)
(* matrices the cells compute                                              *)

\* the terms of every document, in the order the analyser yields them
RECURSIVE AnalysisFrom(_)
AnalysisFrom(d) ==
    IF d > Len(corpus) THEN <<>>
    ELSE <<analyze(corpus[d], vectorizer)>> \o AnalysisFrom(d + 1)

Analysis == AnalysisFrom(1)

\* how often term t occurs in document d
Occurrences(A, d, t) == Cardinality({i \in 1..Len(A[d]) : A[d][i] = t})

\* every term the analyser yields on the corpus
Candidates(A) == UNION {{A[d][i] : i \in 1..Len(A[d])} : d \in 1..Len(A)}

\* df(t): the documents that contain t
DocFreq(A, t) ==
    Cardinality({d \in 1..Len(A) : \E i \in 1..Len(A[d]) : A[d][i] = t})

\* occurrences of t in the whole corpus
RECURSIVE TotalFrom(_, _, _)
TotalFrom(A, t, d) ==
    IF d > Len(A) THEN 0 ELSE Occurrences(A, d, t) + TotalFrom(A, t, d + 1)

TotalCount(A, t) == TotalFrom(A, t, 1)

Brexit == <<"b","r","e","x","i","t">>
Deal == <<"d","e","a","l">>
Election == <<"e","l","e","c","t","i","o","n">>
Trade == <<"t","r","a","d","e">>

CountFitted == vectorizer.kind = "count" /\ vectorizer.fitted
TfidfFitted == vectorizer.kind = "tfidf" /\ vectorizer.fitted

----------------------------------------------------------------------------
\* C1: after fit and transform the count matrix has one row per document,
\* in input order, and one column per vocabulary term; entry (d, t) is the
\* number of occurrences of t in d, never negative.  On ["brexit trade
\* deal", "brexit election"] with unigrams the vocabulary is {brexit:0,
\* deal:1, election:2, trade:3} and the matrix [[1,1,0,1],[1,0,1,0]].
C1_CountMatrix ==
    LET A == Analysis
    IN
    (vectorizer.kind = "count" /\ vector # NoMatrix) =>
        /\ Len(vector) = Len(corpus)
        /\ \A d \in 1..Len(vector) :
              /\ DOMAIN vector[d] = Columns(vectorizer.vocabulary_)
              /\ \A t \in DOMAIN vectorizer.vocabulary_ :
                    /\ vector[d][vectorizer.vocabulary_[t]] = Occurrences(A, d, t)
                    /\ vector[d][vectorizer.vocabulary_[t]] >= 0
        /\ \A j \in Columns(vectorizer.vocabulary_) :
              \E t \in DOMAIN vectorizer.vocabulary_ :
                  vectorizer.vocabulary_[t] = j
        /\ (corpus = corpus_toy /\ vectorizer.ngram_range = <<1, 1>>) =>
              /\ vectorizer.vocabulary_ =
                    (Brexit :> 0 @@ Deal :> 1 @@ Election :> 2 @@ Trade :> 3)
              /\ vector = << (0 :> 1 @@ 1 :> 1 @@ 2 :> 0 @@ 3 :> 1),
                             (0 :> 1 @@ 1 :> 0 @@ 2 :> 1 @@ 3 :> 0) >>

\* the toy corpus has been counted with unigrams
C1_Witness ==
    /\ vectorizer.kind = "count"
    /\ vector # NoMatrix
    /\ corpus = corpus_toy
    /\ vectorizer.ngram_range = <<1, 1>>

\* C2: in every fitted vocabulary the index of a term is its rank in
\* ascending order among the retained terms, so the indices are distinct
\* and are exactly 0..|vocabulary|-1, also after stop-word, min_df/max_df
\* and max_features filtering.
C2_IndexIsRank ==
    vectorizer.fitted =>
        /\ \A t \in DOMAIN vectorizer.vocabulary_ :
              vectorizer.vocabulary_[t] =
                  Cardinality({s \in DOMAIN vectorizer.vocabulary_ :
                                   StrLess(s, t)})
        /\ \A s, t \in DOMAIN vectorizer.vocabulary_ :
              s # t => vectorizer.vocabulary_[s] # vectorizer.vocabulary_[t]
        /\ {vectorizer.vocabulary_[t] : t \in DOMAIN vectorizer.vocabulary_}
              = Columns(vectorizer.vocabulary_)

\* a vocabulary of several terms that stop words, the document-frequency
\* band and max_features have all cut
C2_Witness ==
    LET A == Analysis
    IN
    /\ TfidfFitted
    /\ vectorizer.stop_words # {}
    /\ vectorizer.max_features # 0
    /\ Cardinality(DOMAIN vectorizer.vocabulary_) >= 2
    /\ \E t \in vectorizer.stop_words_ : DocFreq(A, t) < 2
    /\ \E t \in vectorizer.stop_words_ : DocFreq(A, t) = 2
    /\ \E d \in 1..Len(corpus) :
          \E w \in vectorizer.stop_words :
              \E i \in 1..Len(tokenize(preprocess(corpus[d]))) :
                  tokenize(preprocess(corpus[d]))[i] = w

----------------------------------------------------------------------------
(* Tokens and n-grams read off the raw text by position                    *)

\* the maximal runs <<first, last>> of characters satisfying IsIn, of
\* length two or more
RunsOf(doc, IsIn(_)) ==
    {r \in (1..Len(doc)) \X (1..Len(doc)) :
        /\ r[2] - r[1] + 1 >= 2
        /\ \A i \in r[1]..r[2] : IsIn(doc[i])
        /\ (r[1] = 1 \/ ~IsIn(doc[r[1] - 1]))
        /\ (r[2] = Len(doc) \/ ~IsIn(doc[r[2] + 1]))}

\* the k-th run from the left
RunAt(runs, k) ==
    CHOOSE r \in runs : Cardinality({q \in runs : q[1] < r[1]}) = k - 1

\* the lower-cased text of a run
TextOf(doc, r) == [i \in 1..(r[2] - r[1] + 1) |-> lower(doc[r[1] + i - 1])]

\* runs k .. k + n - 1 joined by single spaces
RECURSIVE JoinRuns(_, _, _, _)
JoinRuns(doc, runs, k, n) ==
    IF n = 1 THEN TextOf(doc, RunAt(runs, k))
    ELSE TextOf(doc, RunAt(runs, k)) \o <<" ">> \o
         JoinRuns(doc, runs, k + 1, n - 1)

\* every sequence of n consecutive word-character runs of a document, for n
\* in the n-gram range
WordNGrams(doc, ngram_range) ==
    LET runs == RunsOf(doc, IsWordChar)
    IN  {JoinRuns(doc, runs, k, n) :
           <<k, n>> \in {p \in (1..Cardinality(runs)) \X
                               (ngram_range[1]..ngram_range[2]) :
                            p[1] + p[2] - 1 <= Cardinality(runs)}}

IsAlnum(c) == c \in Lowercase \cup Uppercase

\* between runs k and k + 1 there is white space and dropped one-letter
\* words only, no other separator
NoBoundary(doc, runs, k) ==
    \A i \in (RunAt(runs, k)[2] + 1)..(RunAt(runs, k + 1)[1] - 1) :
        doc[i] = " " \/ IsAlnum(doc[i])

\* n-grams of alphanumeric runs that cross no separator other than white
\* space
AlnumNGrams(doc, ngram_range) ==
    LET runs == RunsOf(doc, IsAlnum)
    IN  {JoinRuns(doc, runs, p[1], p[2]) :
           p \in {p \in (1..Cardinality(runs)) \X
                        (ngram_range[1]..ngram_range[2]) :
                     /\ p[1] + p[2] - 1 <= Cardinality(runs)
                     /\ \A k \in p[1]..(p[1] + p[2] - 2) :
                           NoBoundary(doc, runs, k)}}

Spaces(t) == Cardinality({i \in 1..Len(t) : t[i] = " "})

\* C3 as stated: the vocabulary is the set of n-grams of lower-cased
\* alphanumeric runs of length two or more, none spanning a separator.
C3_AsClaimed ==
    CountFitted =>
        DOMAIN vectorizer.vocabulary_ =
            UNION {AlnumNGrams(corpus[d], vectorizer.ngram_range) :
                     d \in 1..Len(corpus)}

\* C3 (amended): for an n-gram range [min_n, max_n] the vocabulary is
\* exactly the set of sequences of n consecutive tokens (min_n <= n <=
\* max_n) of some document, a token being a lower-cased maximal run of word
\* characters (letters, digits and the underscore) of length two or more;
\* consecutive tokens form an n-gram whatever punctuation or one-letter word
\* lies between them.  With range (2,2) every term is a bigram.
C3_NGrams ==
    CountFitted =>
        /\ DOMAIN vectorizer.vocabulary_ =
              UNION {WordNGrams(corpus[d], vectorizer.ngram_range) :
                       d \in 1..Len(corpus)}
        /\ \A t \in DOMAIN vectorizer.vocabulary_ :
              /\ Spaces(t) + 1 >= vectorizer.ngram_range[1]
              /\ Spaces(t) + 1 <= vectorizer.ngram_range[2]

\* bigrams only, fitted on a headline with punctuation and a one-letter word
C3_Witness ==
    /\ CountFitted
    /\ vectorizer.ngram_range = <<2, 2>>
    /\ \E d \in 1..Len(corpus) : corpus[d] = DocHeadline
    /\ <<"d","e","a","l"," ","d","e","a","l">> \in DOMAIN vectorizer.vocabulary_

----------------------------------------------------------------------------
(* TF-IDF claims.  N is the number of documents; an idf [num, den] is the  *)
(* real ln(num / den) + 1, and ln is strictly increasing, so two idfs      *)
(* compare as their fractions do.                                          *)

N == Len(corpus)

Vocabulary == DOMAIN vectorizer.vocabulary_

IdfOf(t) == vectorizer.idf_[vectorizer.vocabulary_[t]]

Entry(d, t) == matrix[d][vectorizer.vocabulary_[t]]

\* C4: with norm = none every entry of the TF-IDF matrix is TF(t, d) x
\* IDF(t), IDF(t) = ln((N+1)/(df(t)+1)) + 1 and TF the count of t in d: a
\* term with count 2 present in both documents of a 2-document corpus
\* weighs exactly 2, one with count 1 present in one of the two documents
\* ln(3/2)+1, and every entry with TF = 0 is exactly 0.
C4_TfTimesIdf ==
    LET A == Analysis
    IN
    (TfidfFitted /\ vectorizer.norm = "none") =>
        /\ Len(matrix) = N
        /\ \A d \in 1..N : \A t \in Vocabulary :
              /\ Entry(d, t).norm = "none"
              /\ Entry(d, t).w.tf = Occurrences(A, d, t)
              /\ Occurrences(A, d, t) = 0 => Entry(d, t).w = Zero
              /\ Occurrences(A, d, t) # 0 =>
                    Entry(d, t).w.num * (DocFreq(A, t) + 1) =
                        Entry(d, t).w.den * (N + 1)
              /\ (N = 2 /\ DocFreq(A, t) = 2 /\ Occurrences(A, d, t) = 2) =>
                    Entry(d, t).w = [tf |-> 2, num |-> 1, den |-> 1]
              /\ (N = 2 /\ DocFreq(A, t) = 1 /\ Occurrences(A, d, t) = 1) =>
                    Entry(d, t).w = [tf |-> 1, num |-> 3, den |-> 2]

\* two documents, unnormalised: a weight of exactly 2, a weight of
\* ln(3/2)+1 and a zero entry
C4_Witness ==
    LET A == Analysis
    IN
    /\ TfidfFitted
    /\ vectorizer.norm = "none"
    /\ N = 2
    /\ \E d \in 1..N : \E t \in Vocabulary :
          DocFreq(A, t) = 2 /\ Occurrences(A, d, t) = 2
    /\ \E d \in 1..N : \E t \in Vocabulary :
          DocFreq(A, t) = 1 /\ Occurrences(A, d, t) = 1
    /\ \E d \in 1..N : \E t \in Vocabulary : Entry(d, t) = Raw(Zero)

\* C5 as stated: a term of exactly one document has IDF ln((N+1)/2) + 1,
\* strictly above the IDF of a term of all N documents, which is 1, for
\* every corpus size N.
C5_AsClaimed ==
    LET A == Analysis
    IN
    TfidfFitted =>
        \A t \in Vocabulary :
            /\ DocFreq(A, t) = N => IdfOf(t).num = IdfOf(t).den
            /\ DocFreq(A, t) = 1 =>
                  /\ IdfOf(t).num * 2 = IdfOf(t).den * (N + 1)
                  /\ IdfOf(t).num > IdfOf(t).den

\* C5 (amended): a term of exactly one document has IDF ln((N+1)/2) + 1 and
\* a term of all N documents has IDF exactly 1; the first is strictly
\* greater than the second for every corpus size N >= 2 (for N = 1 the two
\* are the same term and both are 1).
C5_RareAboveCommon ==
    LET A == Analysis
    IN
    TfidfFitted =>
        \A t \in Vocabulary :
            /\ DocFreq(A, t) = N => IdfOf(t).num = IdfOf(t).den
            /\ DocFreq(A, t) = 1 =>
                  /\ IdfOf(t).num * 2 = IdfOf(t).den * (N + 1)
                  /\ N >= 2 => IdfOf(t).num > IdfOf(t).den
                  /\ N = 1 => IdfOf(t).num = IdfOf(t).den

\* a corpus of several documents with a term of one document and a term of
\* all documents
C5_Witness ==
    LET A == Analysis
    IN
    /\ TfidfFitted
    /\ N >= 2
    /\ \E t \in Vocabulary : DocFreq(A, t) = 1
    /\ \E t \in Vocabulary : DocFreq(A, t) = N

\* C6: df(s) <= df(t) implies IDF(s) >= IDF(t), and every IDF is at least
\* 1, hence strictly positive.
C6_IdfMonotone ==
    LET A == Analysis
    IN
    TfidfFitted =>
        /\ DOMAIN vectorizer.idf_ = Columns(vectorizer.vocabulary_)
        /\ \A s, t \in Vocabulary :
              DocFreq(A, s) <= DocFreq(A, t) =>
                  IdfOf(s).num * IdfOf(t).den >= IdfOf(t).num * IdfOf(s).den
        /\ \A t \in Vocabulary :
              /\ DocFreq(A, t) <= N
              /\ IdfOf(t).den > 0
              /\ IdfOf(t).num >= IdfOf(t).den

\* two terms of different document frequency
C6_Witness ==
    LET A == Analysis
    IN
    /\ TfidfFitted
    /\ \E s, t \in Vocabulary :
          /\ DocFreq(A, s) < DocFreq(A, t)
          /\ IdfOf(s).num * IdfOf(t).den > IdfOf(t).num * IdfOf(s).den

----------------------------------------------------------------------------
(* Row norms.  The squared l2 norm of a row of weights is a sum of         *)
(* tf^2 * idf^2; grouped by idf it is a vector of integer coefficients,    *)
(* and two such sums are equal when their coefficients are.                *)

IdfClass(w) == <<w.num, w.den>>

IdfClasses(ws) == {IdfClass(ws[j]) : j \in {i \in DOMAIN ws : ws[i].tf # 0}}

RECURSIVE SumSquares(_, _)
SumSquares(ws, js) ==
    IF js = {} THEN 0
    ELSE LET j == CHOOSE i \in js : TRUE
         IN  ws[j].tf * ws[j].tf + SumSquares(ws, js \ {j})

\* the coefficient of idf class c in the squared l2 norm of ws
SquaredCoefficient(ws, c) ==
    SumSquares(ws, {j \in DOMAIN ws : ws[j].tf # 0 /\ IdfClass(ws[j]) = c})

SameSquaredNorm(ws, vs) ==
    \A c \in IdfClasses(ws) \cup IdfClasses(vs) :
        SquaredCoefficient(ws, c) = SquaredCoefficient(vs, c)

\* the real value of a matrix entry is 0
IsZeroEntry(e) == e.w.tf = 0 /\ e.norm = "none"

\* the row of matrix entries has Euclidean norm 1: every non-zero entry is
\* a weight divided by the l2 norm of one and the same row of weights, that
\* row is not zero, and the squares of the numerators add up to the square
\* of the denominator
HasUnitL2Norm(row) ==
    /\ \E j \in DOMAIN row : ~IsZeroEntry(row[j])
    /\ \A j \in DOMAIN row :
          IsZeroEntry(row[j]) \/
              /\ row[j].norm = "l2"
              /\ ~IsZeroRow(row[j].of)
              /\ \A i \in DOMAIN row :
                    IsZeroEntry(row[i]) \/ row[i].of = row[j].of
              /\ SameSquaredNorm([i \in DOMAIN row |-> row[i].w], row[j].of)

\* the entry lies in [0, 1]: it is 0, or a weight over an l2 norm whose
\* square is at least the square of the weight
InUnitInterval(e) ==
    IsZeroEntry(e) \/
        /\ e.norm = "l2"
        /\ e.w.tf > 0
        /\ e.w.num >= e.w.den
        /\ e.w.tf * e.w.tf <= SquaredCoefficient(e.of, IdfClass(e.w))

\* some retained term occurs in document d
HasRetainedTerm(A, d) == \E t \in Vocabulary : Occurrences(A, d, t) > 0

\* C7: with norm = l2 every row with a non-zero raw weight has Euclidean
\* norm 1 after normalisation, so every entry lies in [0, 1], and every row
\* whose raw weights are all zero stays exactly zero; with norm = none the
\* raw weights are returned untouched.
C7_L2Rows ==
    LET A == Analysis
    IN
    TfidfFitted =>
        /\ vectorizer.norm = "l2" =>
              \A d \in 1..N :
                  /\ DOMAIN matrix[d] = Columns(vectorizer.vocabulary_)
                  /\ \A t \in Vocabulary :
                        /\ Entry(d, t).w.tf = Occurrences(A, d, t)
                        /\ InUnitInterval(Entry(d, t))
                  /\ HasRetainedTerm(A, d) => HasUnitL2Norm(matrix[d])
                  /\ ~HasRetainedTerm(A, d) =>
                        \A j \in DOMAIN matrix[d] : matrix[d][j] = Raw(Zero)
        /\ vectorizer.norm = "none" =>
              \A d \in 1..N : \A t \in Vocabulary :
                  Entry(d, t) = Raw(Times(Occurrences(A, d, t), IdfOf(t)))

\* l2: a document without a retained term next to one whose row has
\* several non-zero weights
C7_Witness ==
    LET A == Analysis
    IN
    /\ TfidfFitted
    /\ vectorizer.norm = "l2"
    /\ \E d \in 1..N : ~HasRetainedTerm(A, d)
    /\ \E d \in 1..N :
          /\ HasUnitL2Norm(matrix[d])
          /\ Cardinality({j \in DOMAIN matrix[d] :
                             ~IsZeroEntry(matrix[d][j])}) >= 2

----------------------------------------------------------------------------
(* Filtering claims *)

\* df against a threshold: an int threshold is a number of documents, a
\* float threshold a fraction of the N documents
AtLeast(df, threshold) ==
    IF threshold.integral THEN df >= threshold.num
    ELSE df * threshold.den >= threshold.num * N

AtMost(df, threshold) ==
    IF threshold.integral THEN df <= threshold.num
    ELSE df * threshold.den <= threshold.num * N

InBand(A, t) ==
    /\ AtLeast(DocFreq(A, t), vectorizer.min_df)
    /\ AtMost(DocFreq(A, t), vectorizer.max_df)

\* the terms that survive stop-word and min_df/max_df filtering
Survivors(A) == {t \in Candidates(A) : InBand(A, t)}

\* C8 as stated: a term is retained if and only if min_df <= df(t) <=
\* max_df.
C8_AsClaimed ==
    LET A == Analysis
    IN
    TfidfFitted => \A t \in Candidates(A) : t \in Vocabulary <=> InBand(A, t)

\* C8 (amended): a term is retained only if min_df <= df(t) <= max_df, both
\* bounds inclusive, a float threshold standing for that fraction of N and
\* an int threshold for a number of documents; when max_features is not
\* set the converse holds too, so a term with df equal to min_df is
\* retained and one with df = min_df - 1 is excluded.  When max_features
\* is set a term inside the band can still be dropped.
C8_DfBand ==
    LET A == Analysis
    IN
    TfidfFitted =>
        /\ Vocabulary \subseteq Candidates(A)
        /\ vectorizer.stop_words_ = Candidates(A) \ Vocabulary
        /\ \A t \in Vocabulary : InBand(A, t)
        /\ vectorizer.max_features = 0 =>
              \A t \in Candidates(A) : InBand(A, t) => t \in Vocabulary

\* min_df = 2 without max_features: a term of two documents is kept, a term
\* of one document is dropped
C8_Witness ==
    LET A == Analysis
    IN
    /\ TfidfFitted
    /\ vectorizer.min_df = IntDf(2)
    /\ vectorizer.max_features = 0
    /\ \E t \in Vocabulary : DocFreq(A, t) = 2
    /\ \E t \in Candidates(A) : DocFreq(A, t) = 1 /\ t \notin Vocabulary

\* s comes before t by total count, equal counts by the term string
Before(A, s, t) ==
    \/ TotalCount(A, s) > TotalCount(A, t)
    \/ TotalCount(A, s) = TotalCount(A, t) /\ StrLess(s, t)

BandValid ==
    ~FracLess(doc_count(vectorizer.max_df, N), doc_count(vectorizer.min_df, N))

----------------------------------------------------------------------------
(* Configuration errors *)

\* the n-gram range is malformed in the sense of the claim
RangeMalformed ==
    \/ vectorizer.ngram_range[1] < 1
    \/ vectorizer.ngram_range[1] > vectorizer.ngram_range[2]

NothingProduced ==
    /\ ~vectorizer.fitted
    /\ vectorizer.vocabulary_ = EmptyVocabulary
    /\ vectorizer.idf_ = <<>>
    /\ vector = NoMatrix
    /\ matrix = NoMatrix

----------------------------------------------------------------------------
(* The embedding vocabulary and its queries *)

\* how often a word occurs in the tokens column, counted over its places
TokenFrequency(word) ==
    Cardinality({p \in UNION {{<<d, i>> : i \in 1..Len(tokens_column.cells[d])} :
                                 d \in 1..Len(tokens_column.cells)} :
                    tokens_column.cells[p[1]][p[2]] = word})

\* the words a query names
WordsAsked ==
    IF answer.op = "similarity" THEN {answer.args[1], answer.args[2]}
    ELSE {answer.args[1]}

\* C12: the vocabulary of the trained model is exactly the set of words that
\* occur at least min_count times in the tokens column, and getitem,
\* similarity and most_similar raise the unknown-token error exactly when a
\* word they name is not in that set.
C12_Vocabulary ==
    /\ skipgram.bound =>
          \A word \in QueryWords \cup Range(skipgram.index2word) :
             word \in Range(skipgram.index2word)
                <=> TokenFrequency(word) >= skipgram.min_count
    /\ (skipgram.bound /\ answer.op # "none") =>
          (answer.raised = "UnknownToken"
              <=> \E word \in WordsAsked :
                     TokenFrequency(word) < skipgram.min_count)
    /\ (skipgram.bound /\ answer.op # "none") =>
          answer.raised \in {"none", "UnknownToken"}

\* a word that occurs in the column, but less often than min_count, has been
\* asked for and the query has raised
C12_Witness ==
    /\ skipgram.bound
    /\ answer.op = "most_similar"
    /\ answer.raised = "UnknownToken"
    /\ TokenFrequency(answer.args[1]) = 1
    /\ skipgram.min_count = 2
    /\ Len(skipgram.index2word) >= 2

\* a most_similar query on a word of the vocabulary has returned
Ranked ==
    /\ skipgram.bound
    /\ answer.op = "most_similar"
    /\ answer.raised = "none"

\* the similarity of a word of the vocabulary to the word asked for
SimilarityTo(word) ==
    cosine(skipgram.vectors[word], skipgram.vectors[answer.args[1]])

\* what C13 says apart from the order among equals: the query word is not
\* listed, no word is listed twice, min(k, vocabulary size - 1) words are
\* listed, each with its cosine, none of them less similar than a word
\* after it or a word left out
RankedByCosine ==
    LET result == answer.result
        k == answer.args[2]
        V == Cardinality(Range(skipgram.index2word))
        listed == {result[i][1] : i \in 1..Len(result)}
    IN  /\ answer.args[1] \notin listed
        /\ listed \subseteq Range(skipgram.index2word)
        /\ \A i, j \in 1..Len(result) : i # j => result[i][1] # result[j][1]
        /\ Len(result) = IF k < V - 1 THEN k ELSE V - 1
        /\ \A i \in 1..Len(result) :
              result[i][2] = SimilarityTo(result[i][1])
        /\ \A i, j \in 1..Len(result) :
              i < j => ~CosLess(result[i][2], result[j][2])
        /\ \A i \in 1..Len(result) :
              \A w \in Range(skipgram.index2word)
                          \ (listed \cup {answer.args[1]}) :
                 ~CosLess(result[i][2], SimilarityTo(w))

\* C13 as stated: in addition, of two words of equal similarity the
\* alphabetically smaller one comes first (and is the one kept when only one
\* of them fits).
C13_AsClaimed ==
    Ranked =>
        LET result == answer.result
            listed == {result[i][1] : i \in 1..Len(result)}
            Equal(x, y) == ~CosLess(x, y) /\ ~CosLess(y, x)
        IN  /\ RankedByCosine
            /\ \A i, j \in 1..Len(result) :
                  (i < j /\ Equal(result[i][2], result[j][2]))
                     => StrLess(result[i][1], result[j][1])
            /\ \A i \in 1..Len(result) :
                  \A w \in Range(skipgram.index2word)
                              \ (listed \cup {answer.args[1]}) :
                     Equal(result[i][2], SimilarityTo(w))
                        => StrLess(result[i][1], w)

\* C13 (amended): most_similar(word, k) on a word of the vocabulary never
\* lists the query word, lists no word twice, lists exactly
\* min(k, vocabulary size - 1) words, in descending order of cosine
\* similarity, and leaves out no word more similar than a listed one; the
\* order among words of equal similarity is not fixed.
C13_MostSimilar ==
    Ranked => RankedByCosine

\* three words in the vocabulary, two asked for, and the two listed differ
\* in similarity
C13_Witness ==
    /\ Ranked
    /\ Len(skipgram.index2word) = 3
    /\ answer.args[2] = 2
    /\ Len(answer.result) = 2
    /\ CosLess(answer.result[2][2], answer.result[1][2])

----------------------------------------------------------------------------
(* Steps and the entities built before them *)

\* C14: no step changes the documents or the token sequences of the
\* documents, and the TF-IDF cell run again with the same thresholds, after
\* whatever other steps, computes the matrix it computed before and fails
\* no more than before.
C14_AsClaimed ==
    [][/\ corpus' = corpus
       /\ tokens_column' = tokens_column
       /\ (/\ vectorizer.fitted
           /\ vectorizer' # vectorizer
           /\ vectorizer'.min_df = vectorizer.min_df
           /\ vectorizer'.max_df = vectorizer.max_df)
          => (matrix' = matrix /\ error' = error)]_vars

----------------------------------------------------------------------------
(* Skip-gram training pairs *)

\* a target word of a sentence has just been trained on its context words
TargetTrained == training.active /\ training.pos >= 1

\* the sentence under training, the position of the target in it
Sentence == tokens_column.cells[training.sentence]
Target == training.kept[training.pos]

\* the positions of the sentence within w places of the target
WithinWindow(w) ==
    {j \in 1..Len(Sentence) :
        j # Target /\ j - Target <= w /\ Target - j <= w}

\* the positions that take part in the pass and lie between two positions
Between(i, j) ==
    {p \in Range(training.kept) : (i < p /\ p < j) \/ (j < p /\ p < i)}

----------------------------------------------------------------------------
(* The TF-IDF matrix labelled with the terms of another vectorizer *)

\* C16: with default settings the TfidfVectorizer and the CountVectorizer
\* fitted on the same corpus give every term the same column, the TF-IDF
\* matrix is non-zero exactly where the count matrix is, and the DataFrame
\* built from the TF-IDF matrix and the feature names of the CountVectorizer
\* that vectorizer was rebound to labels every column with the term whose
\* weights the column holds; building it never fails.
C16_Relabel ==
    LET A == Analysis
    IN
    /\ error # "ValueError"
    /\ tf_idf_df.bound =>
          /\ Range(tf_idf_df.columns) = Candidates(A)
          /\ Len(tf_idf_df.columns) = Cardinality(Candidates(A))
          /\ Len(tf_idf_df.data) = N
          /\ \A j \in 1..Len(tf_idf_df.columns) : \A d \in 1..N :
                tf_idf_df.data[d][j - 1].w =
                    Times(Occurrences(A, d, tf_idf_df.columns[j]),
                          Idf(DocFreq(A, tf_idf_df.columns[j]), N))
    /\ (CountFitted /\ matrix # NoMatrix) =>
          /\ DOMAIN matrix[1] = Columns(vectorizer.vocabulary_)
          /\ \A t \in Vocabulary : \A d \in 1..N :
                Entry(d, t).w.tf = Occurrences(A, d, t)
    /\ (CountFitted /\ matrix # NoMatrix /\ vector # NoMatrix) =>
          \A d \in 1..N : \A j \in Columns(vectorizer.vocabulary_) :
             vector[d][j] = 0 <=> IsZeroEntry(matrix[d][j])

\* the DataFrame has been built after the rebinding, from a matrix of three
\* columns or more with a zero and a non-zero weight in one of them
C16_Witness ==
    /\ tf_idf_df.bound
    /\ CountFitted
    /\ vector # NoMatrix
    /\ Len(tf_idf_df.columns) >= 3
    /\ \E j \in 1..Len(tf_idf_df.columns) :
          \E d, e \in 1..N :
             /\ IsZeroEntry(tf_idf_df.data[d][j - 1])
             /\ ~IsZeroEntry(tf_idf_df.data[e][j - 1])

====
